---- MODULE Spec2Model ----
(***************************************************************************)
(* Model of tabby_connection_gateway: GatewayServer / GatewayWorker        *)
(* (gateway_server.py) on top of BaseWorker (base.py).                     *)
(*                                                                         *)
(* One asyncio event loop runs every coroutine, so the code between two    *)
(* awaits that really suspend (websocket.recv, asyncio.open_connection,    *)
(* StreamReader._wait_for_data, websocket.send in the relay, awaiting a    *)
(* task) is one atomic action here.  websocket.send writes its frame       *)
(* before it can suspend, so a handshake send is part of the action that   *)
(* reaches it.                                                             *)
(***************************************************************************)
EXTENDS Integers, Sequences, FiniteSets, TLC

\* ------------------------------------------------------------------ bounds
NumSessions == 2      \* concurrent accepted connections
MaxTcpChunks == 2     \* chunks the downstream peer delivers per session
MaxWsFrames == 1      \* binary frames the client sends per session in relay

Sessions == 1..NumSessions

\* ------------------------------------------------------------------ tokens
\* NoToken stands for None / "" / a missing key: every falsy auth_token.
NoToken == ""
\* A str holding a non-ASCII character (or a truthy non-str JSON value):
\* hmac.compare_digest raises TypeError on it.
NonAsciiTokens == {"T\\u00e9"}
OneTimeTokens == {"T1"} \cup NonAsciiTokens
PermanentChoices == {NoToken, "P", "T1"}
ClientTokens == {NoToken, "T1", "T2", "P"} \cup NonAsciiTokens

Missing == "<missing>"

\* Client -> server handshake frames, as json.loads sees them.
ClientMsgs ==
  [k : {"badjson", "nonobject"}, d : {"-"}, auth_token : {NoToken},
   host : {Missing}, port : {Missing}]
  \cup
  [k : {"object"}, d : {"hello", "connect"}, auth_token : ClientTokens,
   host : {Missing, "h"}, port : {Missing, "p"}]

\* Server -> client control frames.
Frame(f, code, details, auth) ==
  [f |-> f, code |-> code, details |-> details, auth_required |-> auth]
HelloFrame(authRequired) == Frame("hello", "", "", authRequired)
ReadyFrame == Frame("ready", "", "", FALSE)
ConnectedFrame == Frame("connected", "", "", FALSE)
ErrorFrame(code, details) == Frame("error", code, details, FALSE)

VARIABLES
  authorized_tokens,     \* GatewayServer.authorized_tokens
  permanent_auth_token,  \* GatewayServer.permanent_auth_token
  disable_auth,          \* GatewayServer.disable_auth
  pc,                    \* where each handler coroutine is suspended
  closed,                \* BaseWorker.closed
  wsOpen,                \* the session's WebSocket is still open
  sent,                  \* control frames the server sent, in order
  writer,                \* GatewayWorker.writer: "none" | "open" | "closed"
  target,                \* <<target_host, target_port>>
  buffer,                \* StreamReader._buffer (chunk numbers)
  eof,                   \* StreamReader._eof
  waiter,                \* StreamReader._waiter: "none"|"pending"|"woken"|"timeout"|"reset"
  srPc,                  \* socket_reader task position
  wrPc,                  \* websocket_reader task position
  tcpOut,                \* payloads passed to writer.write, in order
  wsOut,                 \* payloads passed to websocket.send in relay, in order
  tcpFed,                \* number of chunks the downstream peer delivered
  wsRecvd,               \* number of relay frames websocket.recv returned
  \* history of what each session did (not program state)
  firstMsg,              \* what the code reads of the frame received at the hello step
  secondMsg,             \* what the code reads of the frame received at the connect step
  tokensAtHello,         \* authorized_tokens when the hello was validated
  removed,               \* the tokens this session removed
  authed,                \* token validation let the session through (line 54 reached)
  closeCount,            \* times closed went from FALSE to TRUE
  dialed,                \* asyncio.open_connection was called
  closeInfo              \* tcpFed and wsOpen when closed became TRUE

vars == <<authorized_tokens, permanent_auth_token, disable_auth, pc, closed,
          wsOpen, sent, writer, target, buffer, eof, waiter, srPc, wrPc,
          tcpOut, wsOut, tcpFed, wsRecvd, firstMsg, secondMsg,
          tokensAtHello, removed, authed, closeCount, dialed, closeInfo>>

\* The fields start() reads at the hello step: msg.get('_'), msg.get('auth_token').
HelloView(msg) == [k |-> msg.k, d |-> msg.d, auth_token |-> msg.auth_token]
NoMsg == [k |-> "none", d |-> "-", auth_token |-> NoToken]
\* The fields start() reads at the connect step before it dials: msg.get('_').
ConnectView(msg) == [k |-> msg.k, d |-> msg.d]
NoConnectMsg == [k |-> "none", d |-> "-"]

\* ------------------------------------------------------- token validation
\* hmac.compare_digest on two str: TypeError unless both are ASCII.
CompareDigest(a, b) ==
  IF a \in NonAsciiTokens \/ b \in NonAsciiTokens THEN "TypeError"
  ELSE IF a = b THEN "eq" ELSE "ne"

\* list(self.server.authorized_tokens): a set iterates in some order.
Orders(S) ==
  {q \in [1..Cardinality(S) -> S] : \A i, j \in 1..Cardinality(S) : q[i] = q[j] => i = j}

\* valid_tokens, lines 42-44.
ValidTokens(order, perm) ==
  IF perm # NoToken THEN Append(order, perm) ELSE order

ScanTokensLenient(tok, vts) ==
  IF vts = <<>> THEN [res |-> "nomatch", token |-> NoToken]
  ELSE [res |-> "match", token |-> Head(vts)]

\* the for/else loop, lines 46-52, up to the match.
RECURSIVE ScanTokens(_, _)
ScanTokens(tok, vts) ==
  IF vts = <<>> THEN [res |-> "nomatch", token |-> NoToken]
  ELSE LET c == CompareDigest(tok, Head(vts)) IN
       IF c = "TypeError" THEN [res |-> "TypeError", token |-> NoToken]
       ELSE IF c = "eq" THEN [res |-> "match", token |-> Head(vts)]
       ELSE ScanTokens(tok, Tail(vts))

RemoveMatchedKeep(tokens, t) == tokens

RemoveMatchedAll(tokens, t) == IF t \in tokens THEN {} ELSE tokens

RemoveMatchedAny(tokens, t) ==
  IF tokens # {} THEN tokens \ {CHOOSE x \in tokens : TRUE} ELSE tokens

\* lines 48-49: the matched token leaves the set when it is a member.
RemoveMatched(tokens, t) ==
  IF t \in tokens THEN tokens \ {t} ELSE tokens

\* ------------------------------------------------------------------ close
BaseWorkerCloseNoop(c) == c

BaseWorkerCloseToggle(c) == ~c

\* BaseWorker.close: sets the flag when it is not set.
BaseWorkerClose(c) == IF ~c THEN TRUE ELSE c

\* GatewayWorker.close: the base close runs first, then the writer is
\* closed under "if not self.closed".
GatewayWorkerClose(c, w) ==
  LET c1 == BaseWorkerClose(c) IN
  [closed |-> c1,
   writer |-> IF ~c1 /\ w # "none" THEN "closed" ELSE w]

NoCloseInfo == [fed |-> -1, ws |-> FALSE]

\* n successive close() calls on session s, whose writer is w and whose
\* WebSocket is open iff ws (fatal() closes, then the handler's finally).
RECURSIVE CloseTimes(_, _, _)
CloseTimes(n, c, w) ==
  IF n = 0 THEN [closed |-> c, writer |-> w, flips |-> 0]
  ELSE LET r == GatewayWorkerClose(c, w)
           rest == CloseTimes(n - 1, r.closed, r.writer)
       IN [closed |-> rest.closed, writer |-> rest.writer,
           flips |-> rest.flips + (IF c # r.closed THEN 1 ELSE 0)]

CloseEffects(s, n, w, ws) ==
  LET r == CloseTimes(n, closed[s], w) IN
  /\ closed' = [closed EXCEPT ![s] = r.closed]
  /\ writer' = [writer EXCEPT ![s] = r.writer]
  /\ closeCount' = [closeCount EXCEPT ![s] = @ + r.flips]
  /\ closeInfo' = IF ~closed[s] /\ r.closed
                  THEN [closeInfo EXCEPT ![s] = [fed |-> tcpFed[s], ws |-> ws]]
                  ELSE closeInfo

HandlerReturnsNoClose(s, n, frames, w, ws) ==
  /\ sent' = [sent EXCEPT ![s] = frames]
  /\ UNCHANGED <<closed, writer, closeCount, closeInfo>>
  /\ pc' = [pc EXCEPT ![s] = "done"]
  /\ wsOpen' = [wsOpen EXCEPT ![s] = FALSE]

\* GatewayServer.handler leaves through its finally (w.close()); the
\* websockets server then closes the connection of a returned handler.
\* n counts the close() calls: 2 when fatal() closed before the finally.
HandlerReturns(s, n, frames, w, ws) ==
  /\ sent' = [sent EXCEPT ![s] = frames]
  /\ CloseEffects(s, n, w, ws)
  /\ pc' = [pc EXCEPT ![s] = "done"]
  /\ wsOpen' = [wsOpen EXCEPT ![s] = FALSE]

FatalNoReturn(s, code, details, w, ws) ==
  /\ sent' = [sent EXCEPT ![s] =
                IF ws THEN Append(sent[s], ErrorFrame(code, details)) ELSE sent[s]]
  /\ CloseEffects(s, 1, w, ws)
  /\ UNCHANGED <<pc, wsOpen>>

\* fatal(code): send the error frame, then close(); a send on a closed
\* WebSocket raises and fatal's close() is skipped.  Then the handler returns.
FatalReturns(s, code, details, w, ws) ==
  HandlerReturns(s, IF ws THEN 2 ELSE 1,
                 IF ws THEN Append(sent[s], ErrorFrame(code, details)) ELSE sent[s],
                 w, ws)

\* ------------------------------------------------------------- handshake
Fatal(code, details) == [kind |-> "fatal", code |-> code, details |-> details]

HelloOutcomeUnchecked(msg, order, tokens, perm, disable) ==
  [out |-> [kind |-> "ready", code |-> "", details |-> ""], tokens |-> tokens]

HelloOutcomeTokenFirst(msg, order, tokens, perm, disable) ==
  IF msg.k # "object"
  THEN [out |-> Fatal("invalid-message", "Invalid JSON format"), tokens |-> tokens]
  ELSE LET r == ScanTokens(msg.auth_token, ValidTokens(order, perm))
           t == IF r.res = "match" THEN RemoveMatched(tokens, r.token) ELSE tokens
       IN IF msg.d # "hello"
          THEN [out |-> Fatal("expected-hello", ""), tokens |-> t]
          ELSE [out |-> [kind |-> "ready", code |-> "", details |-> ""], tokens |-> t]

HelloOutcomeAlwaysAuth(msg, order, tokens, perm, disable) ==
  IF msg.k # "object"
  THEN [out |-> Fatal("invalid-message", "Invalid JSON format"), tokens |-> tokens]
  ELSE IF msg.d # "hello"
  THEN [out |-> Fatal("expected-hello", ""), tokens |-> tokens]
  ELSE IF msg.auth_token = NoToken
  THEN [out |-> Fatal("expected-auth-token", ""), tokens |-> tokens]
  ELSE LET r == ScanTokens(msg.auth_token, ValidTokens(order, perm)) IN
       IF r.res = "match"
       THEN [out |-> [kind |-> "ready", code |-> "", details |-> ""],
             tokens |-> RemoveMatched(tokens, r.token)]
       ELSE [out |-> Fatal("incorrect-auth-token", ""), tokens |-> tokens]

\* start(), lines 34-54, from the received frame to the reply.
HelloOutcome(msg, order, tokens, perm, disable) ==
  IF msg.k = "badjson"
  THEN [out |-> Fatal("invalid-message", "Invalid JSON format"), tokens |-> tokens]
  ELSE IF msg.k = "nonobject"
  THEN [out |-> Fatal("handshake-error", "AttributeError"), tokens |-> tokens]
  ELSE IF msg.d # "hello"
  THEN [out |-> Fatal("expected-hello", ""), tokens |-> tokens]
  ELSE IF disable
  THEN [out |-> [kind |-> "ready", code |-> "", details |-> ""], tokens |-> tokens]
  ELSE IF msg.auth_token = NoToken
  THEN [out |-> Fatal("expected-auth-token", ""), tokens |-> tokens]
  ELSE LET r == ScanTokens(msg.auth_token, ValidTokens(order, perm)) IN
       IF r.res = "TypeError"
       THEN [out |-> Fatal("invalid-message", "Invalid JSON format"), tokens |-> tokens]
       ELSE IF r.res = "nomatch"
       THEN [out |-> Fatal("incorrect-auth-token", ""), tokens |-> tokens]
       ELSE [out |-> [kind |-> "ready", code |-> "", details |-> ""],
             tokens |-> RemoveMatched(tokens, r.token)]

\* start(), lines 56-61.
ConnectOutcome(msg) ==
  IF msg.k = "badjson" THEN Fatal("invalid-message", "Invalid JSON format")
  ELSE IF msg.k = "nonobject" THEN Fatal("handshake-error", "AttributeError")
  ELSE IF msg.d # "connect" THEN Fatal("expected-connect", "")
  ELSE [kind |-> "dial", code |-> "", details |-> ""]

\* asyncio.open_connection(host, port): with neither it raises ValueError;
\* with no port the kernel refuses port 0; with no host it dials localhost.
DialCanSucceed(host, port) == port # Missing
DialErrorDropped(host, port) == ""

\* str(e) of the exception open_connection raised, line 69.
DialError(host, port) ==
  IF host = Missing /\ port = Missing
  THEN "host and port was not specified and no sock specified"
  ELSE "Connect call failed"

HandshakeFrame == <<authorized_tokens, tokensAtHello, removed, authed, firstMsg>>
RelayFrame == <<buffer, eof, waiter, srPc, wrPc, tcpOut, wsOut, tcpFed, wsRecvd>>

\* start(), lines 26-33: the server's hello.
Start(s) ==
  /\ pc[s] = "start"
  /\ IF wsOpen[s]
     THEN /\ sent' = [sent EXCEPT ![s] = Append(@, HelloFrame(~disable_auth))]
          /\ pc' = [pc EXCEPT ![s] = "recv_hello"]
          /\ UNCHANGED <<closed, writer, closeCount, closeInfo, wsOpen>>
     ELSE HandlerReturns(s, 1, sent[s], writer[s], FALSE)
  /\ UNCHANGED <<permanent_auth_token, disable_auth, target, secondMsg, dialed>>
  /\ UNCHANGED HandshakeFrame
  /\ UNCHANGED RelayFrame

\* recv_service_message raises ConnectionClosed (line 81): start returns.
RecvClosed(s) ==
  /\ pc[s] \in {"recv_hello", "recv_connect"}
  /\ ~wsOpen[s]
  /\ HandlerReturns(s, 1, sent[s], writer[s], FALSE)
  /\ UNCHANGED <<permanent_auth_token, disable_auth, target, secondMsg, dialed>>
  /\ UNCHANGED HandshakeFrame
  /\ UNCHANGED RelayFrame

\* start(), lines 34-54: the client's hello arrives (the client may be gone
\* by the time the reply is sent).
RecvHello(s) ==
  /\ pc[s] = "recv_hello"
  /\ wsOpen[s]
  /\ \E msg \in ClientMsgs, order \in Orders(authorized_tokens), gone \in BOOLEAN :
       LET o == HelloOutcome(msg, order, authorized_tokens,
                             permanent_auth_token, disable_auth)
           ws == ~gone
       IN
       /\ firstMsg' = [firstMsg EXCEPT ![s] = HelloView(msg)]
       /\ tokensAtHello' = [tokensAtHello EXCEPT ![s] = authorized_tokens]
       /\ authorized_tokens' = o.tokens
       /\ removed' = [removed EXCEPT ![s] = @ \cup (authorized_tokens \ o.tokens)]
       /\ authed' = [authed EXCEPT ![s] = o.out.kind = "ready"]
       /\ IF o.out.kind = "fatal"
          THEN FatalReturns(s, o.out.code, o.out.details, writer[s], ws)
          ELSE IF ws
          THEN /\ sent' = [sent EXCEPT ![s] = Append(@, ReadyFrame)]
               /\ pc' = [pc EXCEPT ![s] = "recv_connect"]
               /\ UNCHANGED <<closed, writer, closeCount, closeInfo, wsOpen>>
          ELSE HandlerReturns(s, 1, sent[s], writer[s], FALSE)
  /\ UNCHANGED <<permanent_auth_token, disable_auth, target, secondMsg, dialed>>
  /\ UNCHANGED RelayFrame

\* start(), lines 56-66: the client's connect arrives; open_connection is called.
RecvConnect(s) ==
  /\ pc[s] = "recv_connect"
  /\ wsOpen[s]
  /\ \E msg \in ClientMsgs, gone \in BOOLEAN :
       LET o == ConnectOutcome(msg)
           ws == ~gone
       IN
       /\ secondMsg' = [secondMsg EXCEPT ![s] = ConnectView(msg)]
       /\ IF o.kind = "fatal"
          THEN /\ FatalReturns(s, o.code, o.details, writer[s], ws)
               /\ UNCHANGED <<target, dialed>>
          ELSE /\ target' = [target EXCEPT ![s] = <<msg.host, msg.port>>]
               /\ dialed' = [dialed EXCEPT ![s] = TRUE]
               /\ pc' = [pc EXCEPT ![s] = "dial"]
               /\ wsOpen' = [wsOpen EXCEPT ![s] = ws]
               /\ UNCHANGED <<sent, closed, writer, closeCount, closeInfo>>
  /\ UNCHANGED <<permanent_auth_token, disable_auth>>
  /\ UNCHANGED HandshakeFrame
  /\ UNCHANGED RelayFrame

\* start(), lines 63-69: open_connection raises.
DialFailed(s) ==
  /\ pc[s] = "dial"
  /\ FatalReturns(s, "connection-failed", DialError(target[s][1], target[s][2]),
                  writer[s], wsOpen[s])
  /\ UNCHANGED <<permanent_auth_token, disable_auth, target, secondMsg, dialed>>
  /\ UNCHANGED HandshakeFrame
  /\ UNCHANGED RelayFrame

\* start(), lines 63-77: open_connection returns; the server sends
\* connected and creates both pump tasks, and the handler goes on to wait()
\* for the socket_reader task.
DialConnected(s) ==
  /\ pc[s] = "dial"
  /\ DialCanSucceed(target[s][1], target[s][2])
  /\ IF wsOpen[s]
     THEN /\ writer' = [writer EXCEPT ![s] = "open"]
          /\ sent' = [sent EXCEPT ![s] = Append(@, ConnectedFrame)]
          /\ srPc' = [srPc EXCEPT ![s] = "top"]
          /\ wrPc' = [wrPc EXCEPT ![s] = "top"]
          /\ pc' = [pc EXCEPT ![s] = "wait_sr"]
          /\ UNCHANGED <<closed, closeCount, closeInfo, wsOpen>>
     ELSE /\ HandlerReturns(s, 1, sent[s], "open", FALSE)
          /\ UNCHANGED <<srPc, wrPc>>
  /\ UNCHANGED <<permanent_auth_token, disable_auth, target, secondMsg, dialed>>
  /\ UNCHANGED HandshakeFrame
  /\ UNCHANGED <<buffer, eof, waiter, tcpOut, wsOut, tcpFed, wsRecvd>>

\* wait(), lines 88-92, and the handler's except/finally, lines 154-159.
Wait(s) ==
  /\ \/ /\ pc[s] = "wait_sr"
        /\ srPc[s] \in {"done", "raised"}
        /\ IF srPc[s] = "done" /\ wrPc[s] # "done"
           THEN /\ pc' = [pc EXCEPT ![s] = "wait_wr"]
                /\ UNCHANGED <<sent, closed, writer, closeCount, closeInfo, wsOpen>>
           ELSE HandlerReturns(s, 1, sent[s], writer[s], wsOpen[s])
     \/ /\ pc[s] = "wait_wr"
        /\ wrPc[s] = "done"
        /\ HandlerReturns(s, 1, sent[s], writer[s], wsOpen[s])
  /\ UNCHANGED <<permanent_auth_token, disable_auth, target, secondMsg, dialed>>
  /\ UNCHANGED HandshakeFrame
  /\ UNCHANGED RelayFrame

\* ------------------------------------------------------------ relay pumps
HandlerFrame == <<permanent_auth_token, disable_auth, pc, sent, target,
                  secondMsg, dialed, wsOpen>>

\* websocket_reader, lines 106-108: the loop test, then recv() suspends.
WsReaderTop(c) == IF c THEN "done" ELSE "recv"

\* The websocket_reader task takes its first step.
WebsocketReaderStart(s) ==
  /\ wrPc[s] = "top"
  /\ wrPc' = [wrPc EXCEPT ![s] = WsReaderTop(closed[s])]
  /\ UNCHANGED HandlerFrame
  /\ UNCHANGED HandshakeFrame
  /\ UNCHANGED <<closed, writer, closeCount, closeInfo>>
  /\ UNCHANGED <<buffer, eof, waiter, srPc, tcpOut, wsOut, tcpFed, wsRecvd>>

\* websocket_reader, lines 110 and 114, then 106-108: recv() returns the
\* client's next frame, which goes to writer.write.
WebsocketReaderRecv(s) ==
  /\ wrPc[s] = "recv"
  /\ wsOpen[s]
  /\ wsRecvd[s] < MaxWsFrames
  /\ wsRecvd' = [wsRecvd EXCEPT ![s] = @ + 1]
  /\ tcpOut' = [tcpOut EXCEPT ![s] = Append(@, wsRecvd[s] + 1)]
  /\ wrPc' = [wrPc EXCEPT ![s] = WsReaderTop(closed[s])]
  /\ UNCHANGED HandlerFrame
  /\ UNCHANGED HandshakeFrame
  /\ UNCHANGED <<closed, writer, closeCount, closeInfo>>
  /\ UNCHANGED <<buffer, eof, waiter, srPc, wsOut, tcpFed>>

\* websocket_reader, lines 111-113: recv() raises ConnectionClosed.
WebsocketReaderClosed(s) ==
  /\ wrPc[s] = "recv"
  /\ ~wsOpen[s]
  /\ CloseEffects(s, 1, writer[s], FALSE)
  /\ wrPc' = [wrPc EXCEPT ![s] = "done"]
  /\ UNCHANGED HandlerFrame
  /\ UNCHANGED HandshakeFrame
  /\ UNCHANGED <<buffer, eof, waiter, srPc, tcpOut, wsOut, tcpFed, wsRecvd>>

\* socket_reader, lines 118-121: the loop test, then _wait_for_data, which
\* asserts "not self._eof" and otherwise always parks on a new waiter,
\* whatever the buffer holds.
SocketReaderTop(c, e) ==
  IF c THEN [pc |-> "done", waiter |-> "none"]
  ELSE IF e THEN [pc |-> "raised", waiter |-> "none"]
  ELSE [pc |-> "wait", waiter |-> "pending"]

\* The socket_reader task takes its first step.
SocketReaderStart(s) ==
  /\ srPc[s] = "top"
  /\ srPc' = [srPc EXCEPT ![s] = SocketReaderTop(closed[s], eof[s]).pc]
  /\ waiter' = [waiter EXCEPT ![s] = SocketReaderTop(closed[s], eof[s]).waiter]
  /\ UNCHANGED HandlerFrame
  /\ UNCHANGED HandshakeFrame
  /\ UNCHANGED <<closed, writer, closeCount, closeInfo>>
  /\ UNCHANGED <<buffer, eof, wrPc, tcpOut, wsOut, tcpFed, wsRecvd>>

\* socket_reader, lines 121-132: the waiter is done.
SocketReaderWake(s) ==
  /\ srPc[s] = "wait"
  /\ waiter[s] \in {"woken", "timeout", "reset"}
  /\ waiter' = [waiter EXCEPT ![s] = "none"]
  /\ IF waiter[s] = "timeout" \/ (waiter[s] = "woken" /\ buffer[s] = <<>>)
     THEN \* lines 122-125 and 128-130
          /\ CloseEffects(s, 1, writer[s], wsOpen[s])
          /\ srPc' = [srPc EXCEPT ![s] = "done"]
          /\ UNCHANGED <<buffer, wsOut>>
     ELSE IF waiter[s] = "reset"
     THEN \* an exception other than TimeoutError leaves the task
          /\ srPc' = [srPc EXCEPT ![s] = "raised"]
          /\ UNCHANGED <<buffer, wsOut, closed, writer, closeCount, closeInfo>>
     ELSE \* lines 127, 131, 132: the whole buffer goes out as one message
          /\ buffer' = [buffer EXCEPT ![s] = <<>>]
          /\ IF wsOpen[s]
             THEN /\ wsOut' = [wsOut EXCEPT ![s] = @ \o buffer[s]]
                  /\ srPc' = [srPc EXCEPT ![s] = "send"]
             ELSE /\ srPc' = [srPc EXCEPT ![s] = "raised"]
                  /\ UNCHANGED wsOut
          /\ UNCHANGED <<closed, writer, closeCount, closeInfo>>
  /\ UNCHANGED HandlerFrame
  /\ UNCHANGED HandshakeFrame
  /\ UNCHANGED <<eof, wrPc, tcpOut, tcpFed, wsRecvd>>

\* socket_reader: websocket.send returns, back to the loop test.
SocketReaderSent(s) ==
  /\ srPc[s] = "send"
  /\ srPc' = [srPc EXCEPT ![s] = SocketReaderTop(closed[s], eof[s]).pc]
  /\ waiter' = [waiter EXCEPT ![s] = SocketReaderTop(closed[s], eof[s]).waiter]
  /\ UNCHANGED HandlerFrame
  /\ UNCHANGED HandshakeFrame
  /\ UNCHANGED <<closed, writer, closeCount, closeInfo>>
  /\ UNCHANGED <<buffer, eof, wrPc, tcpOut, wsOut, tcpFed, wsRecvd>>

\* ------------------------------------------------------------ environment
\* StreamReader._wakeup_waiter: a parked waiter is released.
WakeupWaiter(w) == IF w = "pending" THEN "woken" ELSE w

\* A released socket_reader runs before the loop polls the socket again.
TcpQuiet(s) ==
  /\ writer[s] = "open"
  /\ srPc[s] \in {"top", "wait", "send"}
  /\ waiter[s] \in {"none", "pending"}
  /\ ~eof[s]

\* StreamReader.feed_data: the downstream peer's next chunk arrives.
TcpData(s) ==
  /\ TcpQuiet(s)
  /\ tcpFed[s] < MaxTcpChunks
  /\ tcpFed' = [tcpFed EXCEPT ![s] = @ + 1]
  /\ buffer' = [buffer EXCEPT ![s] = Append(@, tcpFed[s] + 1)]
  /\ waiter' = [waiter EXCEPT ![s] = WakeupWaiter(@)]
  /\ UNCHANGED HandlerFrame
  /\ UNCHANGED HandshakeFrame
  /\ UNCHANGED <<closed, writer, closeCount, closeInfo>>
  /\ UNCHANGED <<eof, srPc, wrPc, tcpOut, wsOut, wsRecvd>>

\* StreamReader.feed_eof: the downstream peer closes its side.
TcpEof(s) ==
  /\ TcpQuiet(s)
  /\ eof' = [eof EXCEPT ![s] = TRUE]
  /\ waiter' = [waiter EXCEPT ![s] = WakeupWaiter(@)]
  /\ UNCHANGED HandlerFrame
  /\ UNCHANGED HandshakeFrame
  /\ UNCHANGED <<closed, writer, closeCount, closeInfo>>
  /\ UNCHANGED <<buffer, srPc, wrPc, tcpOut, wsOut, tcpFed, wsRecvd>>

\* StreamReader.set_exception: the connection is lost with an error while
\* socket_reader is parked (TimeoutError, or another OSError).
TcpFail(s) ==
  /\ TcpQuiet(s)
  /\ waiter[s] = "pending"
  /\ \E exc \in {"timeout", "reset"} : waiter' = [waiter EXCEPT ![s] = exc]
  /\ UNCHANGED HandlerFrame
  /\ UNCHANGED HandshakeFrame
  /\ UNCHANGED <<closed, writer, closeCount, closeInfo>>
  /\ UNCHANGED <<buffer, eof, srPc, wrPc, tcpOut, wsOut, tcpFed, wsRecvd>>

\* The client closes (or loses) its WebSocket.
PeerClose(s) ==
  /\ pc[s] \notin {"absent", "done"}
  /\ wsOpen[s]
  /\ wsOpen' = [wsOpen EXCEPT ![s] = FALSE]
  /\ UNCHANGED <<permanent_auth_token, disable_auth, pc, sent, target, secondMsg, dialed>>
  /\ UNCHANGED HandshakeFrame
  /\ UNCHANGED <<closed, writer, closeCount, closeInfo>>
  /\ UNCHANGED RelayFrame

\* ---------------------------------------------------------- specification
InitSessions(live) ==
  /\ authorized_tokens \in SUBSET OneTimeTokens
  /\ permanent_auth_token \in PermanentChoices
  /\ disable_auth \in BOOLEAN
  /\ pc = [s \in Sessions |-> IF s \in live THEN "start" ELSE "absent"]
  /\ closed = [s \in Sessions |-> FALSE]
  /\ wsOpen = [s \in Sessions |-> s \in live]
  /\ sent = [s \in Sessions |-> <<>>]
  /\ writer = [s \in Sessions |-> "none"]
  /\ target = [s \in Sessions |-> <<Missing, Missing>>]
  /\ buffer = [s \in Sessions |-> <<>>]
  /\ eof = [s \in Sessions |-> FALSE]
  /\ waiter = [s \in Sessions |-> "none"]
  /\ srPc = [s \in Sessions |-> "none"]
  /\ wrPc = [s \in Sessions |-> "none"]
  /\ tcpOut = [s \in Sessions |-> <<>>]
  /\ wsOut = [s \in Sessions |-> <<>>]
  /\ tcpFed = [s \in Sessions |-> 0]
  /\ wsRecvd = [s \in Sessions |-> 0]
  /\ firstMsg = [s \in Sessions |-> NoMsg]
  /\ secondMsg = [s \in Sessions |-> NoConnectMsg]
  /\ tokensAtHello = [s \in Sessions |-> {}]
  /\ removed = [s \in Sessions |-> {}]
  /\ authed = [s \in Sessions |-> FALSE]
  /\ closeCount = [s \in Sessions |-> 0]
  /\ dialed = [s \in Sessions |-> FALSE]
  /\ closeInfo = [s \in Sessions |-> NoCloseInfo]

\* One connection, from accept to the end of its relay.
Init == InitSessions({1})

Next ==
  \E s \in Sessions :
    \/ Start(s)
    \/ RecvClosed(s)
    \/ RecvHello(s)
    \/ RecvConnect(s)
    \/ DialFailed(s)
    \/ DialConnected(s)
    \/ Wait(s)
    \/ WebsocketReaderStart(s)
    \/ WebsocketReaderRecv(s)
    \/ WebsocketReaderClosed(s)
    \/ SocketReaderStart(s)
    \/ SocketReaderWake(s)
    \/ SocketReaderSent(s)
    \/ TcpData(s)
    \/ TcpEof(s)
    \/ TcpFail(s)
    \/ PeerClose(s)

Spec == Init /\ [][Next]_vars

\* NumSessions concurrent connections through the handshake, against a
\* downstream that refuses every dial.
InitAuth == InitSessions(Sessions)

NextAuth ==
  \E s \in Sessions :
    \/ Start(s)
    \/ RecvClosed(s)
    \/ RecvHello(s)
    \/ RecvConnect(s)
    \/ DialFailed(s)
    \/ PeerClose(s)

SpecAuth == InitAuth /\ [][NextAuth]_vars

TypeOK ==
  /\ authorized_tokens \subseteq OneTimeTokens
  /\ \A s \in Sessions :
       /\ pc[s] \in {"absent", "start", "recv_hello", "recv_connect", "dial", "wait_sr", "wait_wr", "done"}
       /\ writer[s] \in {"none", "open", "closed"}
       /\ srPc[s] \in {"none", "top", "wait", "send", "done", "raised"}
       /\ wrPc[s] \in {"none", "top", "recv", "done"}
       /\ waiter[s] \in {"none", "pending", "woken", "timeout", "reset"}

\* ----------------------------------------------------------------- claims
HasFrame(s, f) == \E i \in 1..Len(sent[s]) : sent[s][i].f = f
ErrorCodes(s) == {sent[s][i].code : i \in {j \in 1..Len(sent[s]) : sent[s][j].f = "error"}}
PresentedHello(s) == firstMsg[s].k = "object" /\ firstMsg[s].d = "hello"
PresentedToken(s) == firstMsg[s].auth_token
PumpsStarted(s) == srPc[s] # "none" \/ wrPc[s] # "none"
UpTo(n) == [i \in 1..n |-> i]

\* C1: with auth enabled, two sessions that both received ready after
\* presenting the same token presented the permanent token: a one-time
\* token lets at most one session through, under every interleaving.
C1_OneTimeTokenAcceptedOnce ==
  \A s1, s2 \in Sessions :
    ( /\ s1 # s2
      /\ ~disable_auth
      /\ HasFrame(s1, "ready") /\ HasFrame(s2, "ready")
      /\ PresentedToken(s1) = PresentedToken(s2) )
    => PresentedToken(s1) = permanent_auth_token

\* One session got ready with a one-time token and a second session that
\* presented the same token was turned away.
C1_Witness ==
  \E s1, s2 \in Sessions :
    /\ s1 # s2 /\ ~disable_auth
    /\ PresentedToken(s1) = PresentedToken(s2)
    /\ PresentedToken(s1) # permanent_auth_token
    /\ PresentedToken(s1) \in tokensAtHello[s1]
    /\ HasFrame(s1, "ready")
    /\ "incorrect-auth-token" \in ErrorCodes(s2)

\* C2: with auth enabled, a hello whose non-empty auth_token equals no
\* element of authorized_tokens and not the permanent token gets exactly the
\* error frame incorrect-auth-token after the server's hello, never ready;
\* the session ends closed and removed nothing from authorized_tokens
\* (sessions whose WebSocket was still open for the reply).
C2_WrongTokenRejected ==
  \A s \in Sessions :
    ( /\ ~disable_auth
      /\ PresentedHello(s)
      /\ PresentedToken(s) # NoToken
      /\ PresentedToken(s) \notin tokensAtHello[s]
      /\ PresentedToken(s) # permanent_auth_token
      /\ pc[s] = "done"
      /\ closeInfo[s].ws )
    => /\ sent[s] = <<HelloFrame(TRUE), ErrorFrame("incorrect-auth-token", "")>>
       /\ closed[s]
       /\ removed[s] = {}

\* C3: the server's control frames come in the order hello, ready,
\* connected: hello is first, ready comes second and only after an accepted
\* client hello, connected comes third and only after a successful dial,
\* and the pumps exist (and data is forwarded) only after connected.
C3_ControlFrameOrder ==
  \A s \in Sessions :
    /\ sent[s] # <<>> => sent[s][1].f = "hello"
    /\ \A i \in 1..Len(sent[s]) :
         /\ sent[s][i].f = "hello" => i = 1
         /\ sent[s][i].f = "ready" => i = 2 /\ PresentedHello(s) /\ authed[s]
         /\ sent[s][i].f = "connected" =>
              i = 3 /\ sent[s][2].f = "ready" /\ writer[s] # "none"
    /\ (PumpsStarted(s) \/ tcpOut[s] # <<>> \/ wsOut[s] # <<>>) => HasFrame(s, "connected")

\* A session went hello, ready, connected and relayed data both ways.
C3_Witness ==
  \E s \in Sessions :
    /\ sent[s] = <<HelloFrame(~disable_auth), ReadyFrame, ConnectedFrame>>
    /\ tcpOut[s] # <<>>
    /\ wsOut[s] # <<>>

\* C4: a session that passed authentication removed exactly the one-time
\* token it presented when that token was in authorized_tokens, and nothing
\* when it matched only the permanent token or auth is disabled; a session
\* that did not pass removed nothing; no session removes two elements.
C4_TokensConsumedPerSession ==
  \A s \in Sessions :
    /\ Cardinality(removed[s]) <= 1
    /\ authed[s] =>
         removed[s] = IF ~disable_auth /\ PresentedToken(s) \in tokensAtHello[s]
                      THEN {PresentedToken(s)} ELSE {}
    /\ ~authed[s] => removed[s] = {}

\* One session consumed its one-time token while another authenticated
\* with the permanent token and consumed nothing.
C4_Witness ==
  \E s1, s2 \in Sessions :
    /\ ~disable_auth
    /\ authed[s1] /\ authed[s2]
    /\ removed[s1] = {PresentedToken(s1)}
    /\ PresentedToken(s2) = permanent_auth_token
    /\ PresentedToken(s2) \notin tokensAtHello[s2]
    /\ removed[s2] = {}

\* C5 as stated: a session that authenticates by presenting the permanent
\* token leaves authorized_tokens unchanged, whatever the set contains.
C5_PermanentNeverRemoves ==
  \A s \in Sessions :
    (authed[s] /\ ~disable_auth /\ PresentedToken(s) = permanent_auth_token)
    => removed[s] = {}

\* C5 amended: a session that authenticates by presenting the permanent
\* token removes nothing but a one-time token of the same value, if
\* authorized_tokens holds one; every other element stays.
C5_PermanentTokenExempt ==
  \A s \in Sessions :
    (authed[s] /\ ~disable_auth /\ PresentedToken(s) = permanent_auth_token)
    => removed[s] = tokensAtHello[s] \cap {permanent_auth_token}

\* A session authenticated with the permanent token while authorized_tokens
\* held other tokens, and left them all in place.
C5_Witness ==
  \E s \in Sessions :
    /\ authed[s] /\ ~disable_auth
    /\ PresentedToken(s) = permanent_auth_token
    /\ tokensAtHello[s] # {}
    /\ permanent_auth_token \notin tokensAtHello[s]
    /\ removed[s] = {}
    /\ HasFrame(s, "ready")

\* C6: with auth enabled and a permanent token configured, every session
\* whose hello presents the permanent token passes authentication, whatever
\* authorized_tokens contains and whatever other sessions did.
C6_PermanentTokenAlwaysAccepted ==
  \A s \in Sessions :
    ( /\ ~disable_auth
      /\ permanent_auth_token # NoToken
      /\ PresentedHello(s)
      /\ PresentedToken(s) = permanent_auth_token )
    => authed[s]

\* C7: when the handler has returned, closed went from false to true
\* exactly once and, if the dial had succeeded, the TCP writer is closed.
C7_ClosedOnceAndSocketReleased ==
  \A s \in Sessions :
    pc[s] = "done" =>
      /\ closed[s]
      /\ closeCount[s] = 1
      /\ writer[s] # "none" => writer[s] = "closed"

\* One pump has ended after the session closed while the handler still
\* waits for the other pump, which is parked on its own transport and can
\* only be released by that transport (data, EOF, error or close).
HalfOpenRelay(s) ==
  /\ pc[s] \in {"wait_sr", "wait_wr"}
  /\ closed[s]
  /\ \/ wrPc[s] = "done" /\ srPc[s] = "wait" /\ waiter[s] = "pending"
     \/ srPc[s] = "done" /\ wrPc[s] = "recv" /\ wsOpen[s]

\* C8: once either pump observed closure the other pump stops and wait()
\* returns without a further event from the other transport: no reachable
\* state has one direction ended and the other parked.
C8_NoHalfOpenRelay == \A s \in Sessions : ~HalfOpenRelay(s)

\* C9: in each direction what was delivered is, in order and without
\* duplicates, a prefix of what arrived; and every chunk that had arrived in
\* the TCP reader's buffer when the session closed (its WebSocket still
\* open) has been sent to the WebSocket.
C9_RelayInOrderNoLoss ==
  \A s \in Sessions :
    /\ tcpOut[s] = UpTo(Len(tcpOut[s])) /\ Len(tcpOut[s]) = wsRecvd[s]
    /\ wsOut[s] = UpTo(Len(wsOut[s])) /\ Len(wsOut[s]) <= tcpFed[s]
    /\ (closed[s] /\ closeInfo[s].ws) => Len(wsOut[s]) >= closeInfo[s].fed

\* C10: a connect frame that lacks host or port ends the session with the
\* error frame invalid-message and no other error code, and connected is
\* never sent (sessions whose WebSocket was still open for the reply).
C10_MissingHostPortInvalidMessage ==
  \A s \in Sessions :
    (dialed[s] /\ (target[s][1] = Missing \/ target[s][2] = Missing))
    => /\ ~HasFrame(s, "connected")
       /\ (pc[s] = "done" /\ closeInfo[s].ws) => ErrorCodes(s) = {"invalid-message"}

\* C11: at either handshake receive step a frame that is not valid JSON,
\* or is valid JSON but not an object, ends the session with the error
\* frame invalid-message and the handshake does not advance (sessions whose
\* WebSocket was still open for the reply).
C11_MalformedFrameInvalidMessage ==
  \A s \in Sessions :
    /\ firstMsg[s].k \in {"badjson", "nonobject"} =>
         /\ ~authed[s] /\ ~HasFrame(s, "ready")
         /\ closeInfo[s].ws => ErrorCodes(s) = {"invalid-message"}
    /\ secondMsg[s].k \in {"badjson", "nonobject"} =>
         /\ ~dialed[s] /\ ~HasFrame(s, "connected")
         /\ closeInfo[s].ws => ErrorCodes(s) = {"invalid-message"}

\* C12: a failed dial ends the session closed, with connected never sent
\* and no pump started; the only error frame is connection-failed, it is
\* the last frame, and its details are the dial's error string (sessions
\* whose WebSocket was still open for the reply).
DialHasFailed(s) == dialed[s] /\ pc[s] = "done" /\ writer[s] = "none"
C12_DialFailureReported ==
  \A s \in Sessions :
    DialHasFailed(s) =>
      /\ closed[s]
      /\ ~HasFrame(s, "connected")
      /\ ~PumpsStarted(s) /\ tcpOut[s] = <<>> /\ wsOut[s] = <<>>
      /\ ErrorCodes(s) \subseteq {"connection-failed"}
      /\ closeInfo[s].ws =>
           /\ sent[s][Len(sent[s])].f = "error"
           /\ sent[s][Len(sent[s])].code = "connection-failed"
           /\ sent[s][Len(sent[s])].details =
                (IF target[s] = <<Missing, Missing>>
                 THEN "host and port was not specified and no sock specified"
                 ELSE "Connect call failed")

\* A dial to a given host and port failed and the client was told so.
C12_Witness ==
  \E s \in Sessions :
    /\ DialHasFailed(s)
    /\ target[s] = <<"h", "p">>
    /\ sent[s] = <<HelloFrame(~disable_auth), ReadyFrame,
                   ErrorFrame("connection-failed", "Connect call failed")>>

\* C13: a first message that is an object whose discriminator is not hello
\* ends the session closed with the single error frame expected-hello
\* (sessions whose WebSocket was still open for the reply), never ready,
\* and authorized_tokens is what it was, whatever auth_token it carried.
C13_WrongFirstDiscriminator ==
  \A s \in Sessions :
    (firstMsg[s].k = "object" /\ firstMsg[s].d # "hello") =>
      /\ pc[s] = "done" /\ closed[s]
      /\ ~authed[s] /\ ~dialed[s]
      /\ removed[s] = {} /\ authorized_tokens = tokensAtHello[s]
      /\ ErrorCodes(s) \subseteq {"expected-hello"}
      /\ closeInfo[s].ws =>
           sent[s] = <<HelloFrame(~disable_auth), ErrorFrame("expected-hello", "")>>

\* A first message connect carried a valid one-time token and was refused.
C13_Witness ==
  \E s \in Sessions :
    /\ firstMsg[s].k = "object" /\ firstMsg[s].d = "connect"
    /\ ~disable_auth
    /\ firstMsg[s].auth_token \in tokensAtHello[s]
    /\ firstMsg[s].auth_token \in authorized_tokens
    /\ ErrorCodes(s) = {"expected-hello"}

\* C14: with disable_auth set the server's hello says auth_required false,
\* every client hello, whatever its auth_token, passes the token step and is
\* answered with ready (unless the WebSocket was gone for the reply), and
\* no session removes anything from authorized_tokens.
C14_DisableAuthSkipsTokens ==
  disable_auth =>
    \A s \in Sessions :
      /\ Len(sent[s]) >= 1 => sent[s][1] = HelloFrame(FALSE)
      /\ removed[s] = {}
      /\ PresentedHello(s) =>
           /\ authed[s]
           /\ ErrorCodes(s) \cap {"expected-hello", "expected-auth-token",
                                  "incorrect-auth-token"} = {}
           /\ \/ Len(sent[s]) >= 2 /\ sent[s][2] = ReadyFrame
              \/ pc[s] = "done" /\ closed[s] /\ ~closeInfo[s].ws

\* A hello without a token was answered with ready while tokens were configured.
C14_Witness ==
  \E s \in Sessions :
    /\ disable_auth
    /\ authorized_tokens # {}
    /\ PresentedHello(s) /\ PresentedToken(s) = NoToken
    /\ sent[s] = <<HelloFrame(FALSE), ReadyFrame>>

\* The handshake of s ended on a closed WebSocket (ConnectionClosed, line 81):
\* the handler returned before any pump existed and the WebSocket was
\* closed when the session was marked closed.
EndedByPeerClose(s) ==
  pc[s] = "done" /\ ~PumpsStarted(s) /\ ~closeInfo[s].ws

\* C15 as stated: a handshake ended by the peer closing the WebSocket sent no
\* error frame, dialed nothing and left the session marked closed.
C15_PeerCloseSilentNoDial ==
  \A s \in Sessions :
    EndedByPeerClose(s) =>
      /\ ErrorCodes(s) = {}
      /\ ~dialed[s]
      /\ closed[s]

C15_SilentAndClosed ==
  \A s \in Sessions :
    /\ pc[s] = "done" => closed[s]
    /\ EndedByPeerClose(s) =>
         /\ ErrorCodes(s) = {}
         /\ dialed[s] => secondMsg[s] = [k |-> "object", d |-> "connect"]

C15_NoDialOnceClosedSeen ==
  \A s \in Sessions :
    (~wsOpen[s] /\ pc[s] \in {"start", "recv_hello", "recv_connect", "done"}) =>
      /\ sent'[s] = sent[s]
      /\ dialed'[s] = dialed[s]
      /\ pc'[s] \in {pc[s], "done"}
      /\ pc'[s] = "done" => closed'[s]

\* C15 amended: a handshake ended by the peer closing the WebSocket sent no
\* error frame and is marked closed; when the closure is met while sending
\* hello or ready or while waiting for hello or connect, the session ends at
\* that step and never dials; a session that had dialed met the closure
\* after an object with discriminator connect arrived.
C15_PeerCloseSilent ==
  [](C15_SilentAndClosed) /\ [][C15_NoDialOnceClosedSeen]_vars

\* The peer closed while the server waited for connect: no dial, no error.
C15_Witness ==
  \E s \in Sessions :
    /\ EndedByPeerClose(s) /\ closed[s]
    /\ sent[s] = <<HelloFrame(~disable_auth), ReadyFrame>>
    /\ secondMsg[s] = NoConnectMsg
    /\ ~dialed[s]

\* fatal() was reached on s: its error frame went out, or the handler
\* returned before any pump existed.
FatalReached(s) ==
  HasFrame(s, "error") \/ (pc[s] = "done" /\ ~PumpsStarted(s))

C16_ErrorFrameIsLast ==
  \A s \in Sessions :
    HasFrame(s, "error") =>
      /\ pc[s] = "done" /\ closed[s]
      /\ ~PumpsStarted(s) /\ ~HasFrame(s, "connected")
      /\ tcpOut[s] = <<>> /\ wsOut[s] = <<>>
      /\ \A i \in 1..Len(sent[s]) : sent[s][i].f = "error" <=> i = Len(sent[s])

C16_NothingAfterFatal ==
  \A s \in Sessions :
    FatalReached(s) =>
      /\ sent'[s] = sent[s]
      /\ removed'[s] = removed[s]
      /\ dialed'[s] = dialed[s]
      /\ srPc'[s] = srPc[s] /\ wrPc'[s] = wrPc[s]
      /\ pc'[s] = pc[s] /\ closed'[s]

\* C16: an error frame is the one and last frame of its session, sent with
\* the handler returned, the session closed and no pump started; and once
\* fatal() was reached, whether or not its send went out, the session sends
\* no further frame, removes no token, dials nothing and starts no pump.
C16_FatalStopsTheSession ==
  [](C16_ErrorFrameIsLast) /\ [][C16_NothingAfterFatal]_vars

\* An authenticated session that consumed its token was ended by fatal().
C16_Witness ==
  \E s \in Sessions :
    /\ removed[s] # {}
    /\ Len(sent[s]) = 3 /\ sent[s][2] = ReadyFrame
    /\ sent[s][3] = ErrorFrame("expected-connect", "")
    /\ pc[s] = "done" /\ closed[s]

C17_ClosedAtMostOnce ==
  \A s \in Sessions :
    /\ closeCount[s] = (IF closed[s] THEN 1 ELSE 0)
    /\ pc[s] = "done" => closed[s]
    /\ ~closed[s] => closeInfo[s] = NoCloseInfo

C17_LaterCloseNoEffect ==
  \A s \in Sessions :
    closed[s] =>
      /\ closed'[s]
      /\ closeCount'[s] = closeCount[s]
      /\ writer'[s] = writer[s]
      /\ closeInfo'[s] = closeInfo[s]

\* C17: closed goes from false to true at most once per session, at the
\* first close() call, and stays true; every later close() call, from a
\* pump, from fatal() or from the handler's finally, changes nothing of the
\* session (flag, writer, what was recorded at the first close).
C17_CloseIdempotent ==
  [](C17_ClosedAtMostOnce) /\ [][C17_LaterCloseNoEffect]_vars

\* close() ran more than once on a session: by a pump or by a pump's loop
\* test seeing the flag, then by the handler's finally.
C17_Witness ==
  \E s \in Sessions :
    /\ pc[s] = "done" /\ srPc[s] = "done" /\ wrPc[s] = "done"
    /\ closed[s] /\ closeCount[s] = 1

C18_NoForwardWhenClosed ==
  \A s \in Sessions :
    closed[s] => (tcpOut'[s] = tcpOut[s] /\ wsOut'[s] = wsOut[s])

\* C18: once a session's closed flag is true neither pump forwards data:
\* no step appends to what was passed to writer.write or to websocket.send.
C18_ClosedStopsPumps == [][C18_NoForwardWhenClosed]_vars

\* C19: with auth enabled, every session for which open_connection was
\* called had passed token validation: its hello carried a non-empty token
\* equal to an element authorized_tokens had when the hello was validated,
\* or equal to the permanent token.
C19_DialOnlyAfterAuth ==
  \A s \in Sessions :
    (dialed[s] /\ ~disable_auth) =>
      /\ PresentedHello(s) /\ authed[s]
      /\ HasFrame(s, "ready")
      /\ PresentedToken(s) # NoToken
      /\ PresentedToken(s) \in tokensAtHello[s] \cup {permanent_auth_token}

\* A session dialed after it consumed a one-time token.
C19_Witness ==
  \E s \in Sessions :
    /\ dialed[s] /\ ~disable_auth
    /\ PresentedToken(s) \in tokensAtHello[s]
    /\ PresentedToken(s) # permanent_auth_token
    /\ PresentedToken(s) \notin authorized_tokens

C20_NeverRestored ==
  /\ authorized_tokens' \subseteq authorized_tokens
  /\ \A s \in Sessions : removed[s] \subseteq removed'[s]

C20_ConsumedBeforeReady ==
  \A s \in Sessions :
    /\ removed[s] \cap authorized_tokens = {}
    /\ removed[s] \subseteq {PresentedToken(s)} \cap tokensAtHello[s]
    /\ (~disable_auth /\ authed[s] /\ PresentedToken(s) \in tokensAtHello[s])
         => removed[s] = {PresentedToken(s)}

C20_LaterSessionRejected ==
  \A s1, s2 \in Sessions :
    ( /\ s1 # s2
      /\ PresentedHello(s2)
      /\ PresentedToken(s2) \in removed[s1]
      /\ PresentedToken(s2) \notin tokensAtHello[s2]
      /\ PresentedToken(s2) # permanent_auth_token
      /\ pc[s2] = "done" /\ closeInfo[s2].ws )
    => /\ ErrorCodes(s2) = {"incorrect-auth-token"}
       /\ ~HasFrame(s2, "ready")

\* C20: a one-time token leaves authorized_tokens in the step that validates
\* it, whether or not ready can then be sent; no step of any session puts a
\* token (back) into authorized_tokens, whatever happens to the session
\* afterwards; and a session that presents the token after its removal is
\* answered with the error frame incorrect-auth-token.
C20_ConsumedTokenStaysConsumed ==
  /\ [](C20_ConsumedBeforeReady /\ C20_LaterSessionRejected)
  /\ [][C20_NeverRestored]_vars

====
